---- MODULE Spec2Model ----
(***************************************************************************)
(* BaseSchemaCatalog (clients/client-python/gravitino/catalog/             *)
(* base_schema_catalog.py): the client-side accessor of a catalog's        *)
(* schemas.  Every method is one blocking round trip; the model records,   *)
(* for the last invocation, the operation, its arguments, what the         *)
(* transport would answer, the requests the method issued and how the      *)
(* method ended (a returned value or a raised error).                      *)
(***************************************************************************)
EXTENDS Naturals, Sequences, FiniteSets, TLC

VARIABLES
    namespace,          \* __init__ argument: the catalog's namespace
    name,               \* __init__ argument: the catalog's name
    schema_namespace,   \* self.schema_namespace
    op,                 \* the method last invoked
    args,               \* its arguments
    env,                \* the answer the transport holds for this invocation
    requests,           \* the transport calls the invocation issued, in order
    result              \* how the invocation ended

vars == <<namespace, name, schema_namespace, op, args, env, requests, result>>

client == <<namespace, name, schema_namespace>>

(***************************************************************************)
(* Bounds of the model.                                                    *)
(***************************************************************************)
MaxLevels == 3      \* longest namespace
MaxChanges == 2     \* longest change sequence given to alter_schema
MaxIdents == 2      \* longest identifier list in a list response

(***************************************************************************)
(* Value domains.                                                          *)
(***************************************************************************)
SeqsUpTo(S, n) == UNION {[1..k -> S] : k \in 0..n}

LevelNames == {"m", "c"}

\* the namespaces and names a catalog is constructed with
CatalogNamespaces == {<<"m">>, <<"lake">>, <<"m", "x">>}

CatalogNames == {"c"}

SchemaNames == {"s1", "s2", ""}

Comments == {"", "cmt"}

\* a Dict[str, str] as its set of (key, value) items
PropertyMaps == {{}, {<<"k1", "v1">>}}


\* SchemaChange variants: the two the client maps, and one it does not
SetProperty(k, v) == [kind |-> "SetProperty", property |-> k, value |-> v]

RemoveProperty(k) == [kind |-> "RemoveProperty", property |-> k]

OtherChange(k) == [kind |-> "RenameSchema", property |-> k]

Changes == {SetProperty("k1", "v1"), RemoveProperty("k2"), OtherChange("k1")}

ChangeSeqs == SeqsUpTo(Changes, MaxChanges)

\* NameIdentifier values a list response may carry
Identifier(ns, n) == [namespace |-> ns, name |-> n]

Identifiers ==
    {Identifier(<<"m", "c">>, "s1"), Identifier(<<"m", "c">>, "s2"),
     Identifier(<<>>, "s1")}

\* Schema values a schema response may carry
Schemas ==
    [name : {"s1", "s2"}, comment : {"cmt"}, properties : {{<<"k1", "v1">>}},
     audit : {"audit"}]

NoSchema == [name |-> "", comment |-> "", properties |-> {}, audit |-> ""]

(***************************************************************************)
(* What the transport and the response's validate() do with a call.       *)
(* kind "ok": a body that parses and validates, with its payload;          *)
(* "transport_failure": the rest_client call raises;                       *)
(* "server_error": the server signals a domain error, raised to the        *)
(*   method by the rest_client call or by validate();                      *)
(* "invalid_body": the body fails validate().                              *)
(***************************************************************************)
ServerErrors ==
    {"NoSuchCatalog", "NoSuchSchema", "SchemaAlreadyExists", "NonEmptySchema"}

Response(k, e, ids, s, d) ==
    [kind |-> k, error |-> e, identifiers |-> ids, schema |-> s, dropped |-> d]

FailedResponses ==
    {Response("transport_failure", "TransportError", <<>>, NoSchema, FALSE),
     Response("invalid_body", "ProtocolError", <<>>, NoSchema, FALSE)}
    \cup {Response("server_error", e, <<>>, NoSchema, FALSE) : e \in ServerErrors}

ListResponses ==
    FailedResponses
    \cup {Response("ok", "", ids, NoSchema, FALSE) :
            ids \in SeqsUpTo(Identifiers, MaxIdents)}

SchemaResponses ==
    FailedResponses
    \cup {Response("ok", "", <<>>, s, FALSE) : s \in Schemas}

DropResponses ==
    FailedResponses
    \cup {Response("ok", "", <<>>, NoSchema, d) : d \in BOOLEAN}

\* the rest_client call, from_json and validate() raise on this answer
RespRaises(resp) == resp.kind # "ok"

(***************************************************************************)
(* How a method ends.                                                      *)
(***************************************************************************)
Raise(e) == [kind |-> "raise", error |-> e]

ReturnNames(l) == [kind |-> "return", names |-> l]

ReturnSchema(s) == [kind |-> "return", schema |-> s]

ReturnBool(b) == [kind |-> "return", flag |-> b]

Outcome(reqs, res) == [requests |-> reqs, result |-> res]

(***************************************************************************)
(* A transport call.                                                       *)
(***************************************************************************)
NoBody == [kind |-> "none"]

NoParams == {}

Request(verb, path, body, params) ==
    [verb |-> verb, path |-> path, body |-> body, params |-> params]

(***************************************************************************)
(* Collaborators whose code is outside this file.                          *)
(***************************************************************************)
\* Namespace.of(*levels)
Namespace_of(levels) == levels

\* Namespace.level(pos), pos counted from 0
level(ns, pos) == ns[pos + 1]

\* Namespace.check_schema(ns): a schema namespace has exactly two levels
Namespace_check_schema(ns) == Len(ns) = 2

\* NameIdentifier.check_schema(ident): a two-level namespace and a name
NameIdentifier_check_schema(ns, schema_name) ==
    Len(ns) = 2 /\ schema_name # ""

RECURSIVE JoinDot(_)
JoinDot(levels) ==
    IF levels = <<>> THEN ""
    ELSE IF Len(levels) = 1 THEN levels[1]
    ELSE levels[1] \o "." \o JoinDot(Tail(levels))

\* str(NameIdentifier): the dotted namespace, a dot, the leaf name
NameIdentifier_str(ident) ==
    IF ident.namespace = <<>> THEN ident.name
    ELSE JoinDot(ident.namespace) \o "." \o ident.name

\* SchemaCreateRequest(name, comment, properties)
SchemaCreateRequest(schema_name, comment, properties) ==
    [kind |-> "create", name |-> schema_name, comment |-> comment,
     properties |-> properties]

\* SchemaCreateRequest.validate(): the name is not empty
SchemaCreateRequest_validate(req) == req.name # ""

\* SchemaUpdatesRequest(reqs)
SchemaUpdatesRequest(reqs) == [kind |-> "updates", updates |-> reqs]

\* SchemaUpdatesRequest.validate(): every element is a typed update request
SchemaUpdatesRequest_validate(req) ==
    \A i \in 1..Len(req.updates) :
        req.updates[i].type \in {"setProperty", "removeProperty"}

\* str(bool)
str_bool(b) == IF b THEN "True" ELSE "False"

(***************************************************************************)
(* BaseSchemaCatalog.                                                      *)
(***************************************************************************)
\* a mutation of format_schema_request_path: the two levels change places
format_schema_request_path_swapped(ns) ==
    "api/metalakes/" \o level(ns, 1) \o "/catalogs/" \o level(ns, 0) \o "/schemas"

format_schema_request_path(ns) ==
    "api/metalakes/" \o level(ns, 0) \o "/catalogs/" \o level(ns, 1) \o "/schemas"

schema_path(ns, schema_name) ==
    format_schema_request_path(ns) \o "/" \o schema_name

\* a mutation of to_schema_update_request: the fall-through maps an
\* unrecognised change to a remove-property request instead of raising
to_schema_update_request_fallthrough(change) ==
    IF change.kind = "SetProperty"
    THEN [type |-> "setProperty", property |-> change.property,
          value |-> change.value]
    ELSE [type |-> "removeProperty", property |-> change.property]

\* the value [type |-> "ValueError"] stands for line 205's raise
to_schema_update_request(change) ==
    IF change.kind = "SetProperty"
    THEN [type |-> "setProperty", property |-> change.property,
          value |-> change.value]
    ELSE IF change.kind = "RemoveProperty"
    THEN [type |-> "removeProperty", property |-> change.property]
    ELSE [type |-> "ValueError"]

\* a mutation of list_schemas: the GET is sent before the namespace check
list_schemas_get_first(ns, resp) ==
    IF Len(ns) < 2
    THEN Outcome(<<>>, Raise("IndexError"))
    ELSE LET req == Request("GET", format_schema_request_path(ns), NoBody, NoParams)
         IN  IF ~Namespace_check_schema(ns)
             THEN Outcome(<<req>>, Raise("InvalidNamespace"))
             ELSE Outcome(<<req>>,
                          IF RespRaises(resp) THEN Raise(resp.error)
                          ELSE ReturnNames([i \in 1..Len(resp.identifiers) |->
                                     NameIdentifier_str(resp.identifiers[i])]))

list_schemas(ns, resp) ==
    IF ~Namespace_check_schema(ns)
    THEN Outcome(<<>>, Raise("InvalidNamespace"))
    ELSE LET req == Request("GET", format_schema_request_path(ns), NoBody, NoParams)
         IN  Outcome(<<req>>,
                     IF RespRaises(resp) THEN Raise(resp.error)
                     ELSE ReturnNames([i \in 1..Len(resp.identifiers) |->
                                          NameIdentifier_str(resp.identifiers[i])]))

\* a mutation of create_schema: a failed exchange is swallowed
create_schema_swallow(ns, schema_name, comment, properties, resp) ==
    LET req == SchemaCreateRequest(schema_name, comment, properties)
    IN  IF ~SchemaCreateRequest_validate(req)
        THEN Outcome(<<>>, Raise("IllegalArgument"))
        ELSE Outcome(<<Request("POST", format_schema_request_path(ns), req, NoParams)>>,
                     ReturnSchema(resp.schema))

create_schema(ns, schema_name, comment, properties, resp) ==
    LET req == SchemaCreateRequest(schema_name, comment, properties)
    IN  IF ~SchemaCreateRequest_validate(req)
        THEN Outcome(<<>>, Raise("IllegalArgument"))
        ELSE Outcome(<<Request("POST", format_schema_request_path(ns), req, NoParams)>>,
                     IF RespRaises(resp) THEN Raise(resp.error)
                     ELSE ReturnSchema(resp.schema))

load_schema(ns, schema_name, resp) ==
    Outcome(<<Request("GET", schema_path(ns, schema_name), NoBody, NoParams)>>,
            IF RespRaises(resp) THEN Raise(resp.error)
            ELSE ReturnSchema(resp.schema))

\* a mutation of alter_schema: nothing to change, nothing sent
alter_schema_short_circuit(ns, schema_name, changes, resp) ==
    IF \E i \in 1..Len(changes) :
          to_schema_update_request(changes[i]).type = "ValueError"
    THEN Outcome(<<>>, Raise("ValueError"))
    ELSE IF changes = <<>>
    THEN Outcome(<<>>, ReturnSchema(resp.schema))
    ELSE Outcome(<<Request("PUT", schema_path(ns, schema_name),
                           SchemaUpdatesRequest(
                               [i \in 1..Len(changes) |->
                                   to_schema_update_request(changes[i])]),
                           NoParams)>>,
                 IF RespRaises(resp) THEN Raise(resp.error)
                 ELSE ReturnSchema(resp.schema))

\* a mutation of alter_schema: the update list is built back to front
alter_schema_reversed(ns, schema_name, changes, resp) ==
    IF \E i \in 1..Len(changes) :
          to_schema_update_request(changes[i]).type = "ValueError"
    THEN Outcome(<<>>, Raise("ValueError"))
    ELSE Outcome(<<Request("PUT", schema_path(ns, schema_name),
                           SchemaUpdatesRequest(
                               [i \in 1..Len(changes) |->
                                   to_schema_update_request(
                                       changes[Len(changes) + 1 - i])]),
                           NoParams)>>,
                 IF RespRaises(resp) THEN Raise(resp.error)
                 ELSE ReturnSchema(resp.schema))

\* the list comprehension of lines 149-151 raises at the first change that
\* to_schema_update_request does not recognise
alter_schema(ns, schema_name, changes, resp) ==
    IF \E i \in 1..Len(changes) :
          to_schema_update_request(changes[i]).type = "ValueError"
    THEN Outcome(<<>>, Raise("ValueError"))
    ELSE LET reqs == [i \in 1..Len(changes) |-> to_schema_update_request(changes[i])]
             updates_request == SchemaUpdatesRequest(reqs)
         IN  IF ~SchemaUpdatesRequest_validate(updates_request)
             THEN Outcome(<<>>, Raise("IllegalArgument"))
             ELSE Outcome(<<Request("PUT", schema_path(ns, schema_name),
                                    updates_request, NoParams)>>,
                          IF RespRaises(resp) THEN Raise(resp.error)
                          ELSE ReturnSchema(resp.schema))

\* lines 178-191: the try block, whose except clause returns False
drop_schema_try(ns, schema_name, cascade, resp) ==
    Outcome(<<Request("DELETE", schema_path(ns, schema_name), NoBody,
                      {<<"cascade", str_bool(cascade)>>})>>,
            IF RespRaises(resp) THEN ReturnBool(FALSE)
            ELSE ReturnBool(resp.dropped))

\* whether the name `ident` of line 177 is bound when drop_schema runs: it is
\* no parameter, local, module global or builtin
IdentIsBound == FALSE

drop_schema(ns, schema_name, cascade, resp) ==
    IF ~IdentIsBound
    THEN Outcome(<<>>, Raise("NameError"))
    ELSE IF ~NameIdentifier_check_schema(ns, schema_name)
    THEN Outcome(<<>>, Raise("InvalidIdentifier"))
    ELSE drop_schema_try(ns, schema_name, cascade, resp)

(***************************************************************************)
(* The state machine: construction, then any sequence of invocations.      *)
(***************************************************************************)
NoAnswer == Response("none", "", <<>>, NoSchema, FALSE)

\* __init__ with a namespace of at least one level and a catalog name
Init ==
    /\ namespace \in CatalogNamespaces
    /\ name \in CatalogNames
    /\ schema_namespace = Namespace_of(<<level(namespace, 0), name>>)
    /\ op = "__init__"
    /\ args = [none |-> TRUE]
    /\ env = NoAnswer
    /\ requests = <<>>
    /\ result = [kind |-> "constructed"]

Invoke(o, a, resp, out) ==
    /\ op' = o
    /\ args' = a
    /\ env' = resp
    /\ requests' = out.requests
    /\ result' = out.result
    /\ UNCHANGED client

ListSchemas ==
    \E resp \in ListResponses :
        Invoke("list_schemas", [none |-> TRUE], resp,
               list_schemas(schema_namespace, resp))

CreateSchema ==
    \E n \in SchemaNames, c \in Comments, p \in PropertyMaps, resp \in SchemaResponses :
        Invoke("create_schema", [schema_name |-> n, comment |-> c, properties |-> p],
               resp, create_schema(schema_namespace, n, c, p, resp))

LoadSchema ==
    \E n \in SchemaNames, resp \in SchemaResponses :
        Invoke("load_schema", [schema_name |-> n], resp,
               load_schema(schema_namespace, n, resp))

AlterSchema ==
    \E n \in SchemaNames, ch \in ChangeSeqs, resp \in SchemaResponses :
        Invoke("alter_schema", [schema_name |-> n, changes |-> ch], resp,
               alter_schema(schema_namespace, n, ch, resp))

DropSchema ==
    \E n \in SchemaNames, cascade \in BOOLEAN, resp \in DropResponses :
        Invoke("drop_schema", [schema_name |-> n, cascade |-> cascade], resp,
               drop_schema(schema_namespace, n, cascade, resp))

Next ==
    \/ ListSchemas
    \/ CreateSchema
    \/ LoadSchema
    \/ AlterSchema
    \/ DropSchema

Spec == Init /\ [][Next]_vars

\* list_schemas on a client whose schema_namespace attribute holds any
\* namespace of up to MaxLevels levels
InitAnyNamespace ==
    /\ namespace = <<"m">>
    /\ name = "c"
    /\ schema_namespace \in SeqsUpTo(LevelNames, MaxLevels)
    /\ op = "__init__"
    /\ args = [none |-> TRUE]
    /\ env = NoAnswer
    /\ requests = <<>>
    /\ result = [kind |-> "constructed"]

SpecAnyNamespace == InitAnyNamespace /\ [][ListSchemas]_vars

(***************************************************************************)
(* Properties.                                                             *)
(***************************************************************************)
PropagatingOps == {"list_schemas", "create_schema", "load_schema", "alter_schema"}

BasePathOf(ns) == "api/metalakes/" \o ns[1] \o "/catalogs/" \o ns[2] \o "/schemas"

IsDeclaredVariant(change) == change.kind \in {"SetProperty", "RemoveProperty"}

\* the three failures of a drop the specification lists
DropFailure ==
    \/ env.kind = "transport_failure"
    \/ env.kind = "server_error" /\ env.error = "NoSuchSchema"
    \/ env.kind = "server_error" /\ env.error = "NonEmptySchema"
          /\ args.cascade = FALSE

\* C1: drop_schema never raises and returns false when the DELETE fails in
\* the transport, when the server reports the schema missing and when it
\* reports the schema non-empty with cascade = false.
C1_DropReturnsFalseOnFailure ==
    (op = "drop_schema" /\ DropFailure)
        => (result.kind = "return" /\ result.flag = FALSE)

\* C2: on a valid response list_schemas returns the leaf name of each
\* identifier, as many as the server listed and in the server's order.
C2_ListReturnsLeafNames ==
    (op = "list_schemas" /\ Len(schema_namespace) = 2 /\ env.kind = "ok")
        => /\ result.kind = "return"
           /\ Len(result.names) = Len(env.identifiers)
           /\ \A i \in 1..Len(env.identifiers) :
                  result.names[i] = env.identifiers[i].name

\* C3: alter_schema with a change that is neither SetProperty nor
\* RemoveProperty, at any position, fails with the unknown-change error and
\* issues no transport call.
C3_UnknownChangeFailsBeforeTransport ==
    (op = "alter_schema"
        /\ \E i \in 1..Len(args.changes) : ~IsDeclaredVariant(args.changes[i]))
        => (result = Raise("ValueError") /\ requests = <<>>)

C3_Witness ==
    /\ op = "alter_schema"
    /\ Len(args.changes) = 2
    /\ args.changes[1] = SetProperty("k1", "v1")
    /\ args.changes[2] = OtherChange("k1")
    /\ env.kind = "ok"
    /\ result = Raise("ValueError")
    /\ requests = <<>>

\* C4: a drop_schema whose identifier fails the schema-identifier check
\* raises InvalidIdentifier and issues no DELETE; one whose identifier passes
\* raises no precondition error and issues the DELETE.
C4_DropIdentifierPrecondition ==
    op = "drop_schema"
        => IF NameIdentifier_check_schema(schema_namespace, args.schema_name)
           THEN /\ Len(requests) = 1
                /\ requests[1].verb = "DELETE"
                /\ result.kind = "return"
           ELSE /\ requests = <<>>
                /\ result = Raise("InvalidIdentifier")

\* C5: list_schemas on a schema namespace that has not exactly two levels
\* fails with InvalidNamespace and issues no GET.
C5_ListChecksNamespaceFirst ==
    (op = "list_schemas" /\ Len(schema_namespace) # 2)
        => (result = Raise("InvalidNamespace") /\ requests = <<>>)

C5_Witness ==
    /\ op = "list_schemas"
    /\ Len(schema_namespace) = 3
    /\ env.kind = "ok"
    /\ result = Raise("InvalidNamespace")
    /\ requests = <<>>

C7_EmptyAlterStillPuts ==
    (op = "alter_schema" /\ Len(args.changes) = 0)
        => /\ Len(requests) = 1
           /\ requests[1].verb = "PUT"
           /\ requests[1].path = BasePathOf(schema_namespace) \o "/" \o args.schema_name
           /\ requests[1].body.kind = "updates"
           /\ Len(requests[1].body.updates) = 0
           /\ env.kind = "ok" => result = ReturnSchema(env.schema)

C7_Witness ==
    /\ op = "alter_schema"
    /\ Len(args.changes) = 0
    /\ args.schema_name = "s1"
    /\ env.kind = "ok"
    /\ Len(requests) = 1
    /\ requests[1].verb = "PUT"
    /\ result = ReturnSchema(env.schema)

\* C8: every operation issues the request of the wire table (list: GET base;
\* create: POST base with the create request; load: GET base/name; alter:
\* PUT base/name with the update list; drop: DELETE base/name with the
\* cascade parameter), and an invocation issues at most one request.
C8_WireTable ==
    LET base == BasePathOf(schema_namespace)
    IN
    /\ Len(requests) <= 1
    /\ op = "list_schemas"
         => requests = <<Request("GET", base, NoBody, NoParams)>>
    /\ (op = "create_schema" /\ args.schema_name # "")
         => requests = <<Request("POST", base,
                                 [kind |-> "create", name |-> args.schema_name,
                                  comment |-> args.comment,
                                  properties |-> args.properties],
                                 NoParams)>>
    /\ op = "load_schema"
         => requests = <<Request("GET", base \o "/" \o args.schema_name,
                                 NoBody, NoParams)>>
    /\ (op = "alter_schema" /\ \A i \in 1..Len(args.changes) :
                                   IsDeclaredVariant(args.changes[i]))
         => /\ Len(requests) = 1
            /\ requests[1].verb = "PUT"
            /\ requests[1].path = base \o "/" \o args.schema_name
            /\ requests[1].body.kind = "updates"
            /\ requests[1].params = NoParams
    /\ (op = "drop_schema" /\ args.schema_name # "")
         => requests = <<Request("DELETE", base \o "/" \o args.schema_name, NoBody,
                                 {<<"cascade", IF args.cascade THEN "True"
                                               ELSE "False">>})>>

\* C9: format_schema_request_path gives "api/metalakes/" level0 "/catalogs/"
\* level1 "/schemas", and the per-schema path of load, alter and drop is
\* that base, "/" and the schema name.
C9_PathConstruction ==
    LET base == BasePathOf(schema_namespace)
    IN
    /\ (op \in {"list_schemas", "create_schema"} /\ requests # <<>>)
         => requests[1].path = base
    /\ (op \in {"load_schema", "alter_schema"} /\ requests # <<>>)
         => requests[1].path = base \o "/" \o args.schema_name
    /\ op = "drop_schema"
         => drop_schema_try(schema_namespace, args.schema_name, args.cascade,
                            env).requests[1].path
               = base \o "/" \o args.schema_name
    /\ (op = "load_schema" /\ schema_namespace = <<"m", "c">>
           /\ args.schema_name = "s1")
         => requests[1].path = "api/metalakes/m/catalogs/c/schemas/s1"

C9_Witness ==
    /\ op = "load_schema"
    /\ schema_namespace = <<"lake", "c">>
    /\ args.schema_name = "s2"
    /\ Len(requests) = 1
    /\ requests[1].path = "api/metalakes/lake/catalogs/c/schemas/s2"

\* C10: for a change sequence of SetProperty and RemoveProperty only, the
\* update list sent has the length of the sequence and its i-th element is
\* the request of the i-th change, with the same key and value.
C10_UpdateListMirrorsChanges ==
    (op = "alter_schema" /\ requests # <<>>
        /\ \A i \in 1..Len(args.changes) : IsDeclaredVariant(args.changes[i]))
        => /\ Len(requests) = 1
           /\ LET u == requests[1].body.updates
              IN  /\ Len(u) = Len(args.changes)
                  /\ \A i \in 1..Len(u) :
                        IF args.changes[i].kind = "SetProperty"
                        THEN u[i] = [type |-> "setProperty",
                                     property |-> args.changes[i].property,
                                     value |-> args.changes[i].value]
                        ELSE u[i] = [type |-> "removeProperty",
                                     property |-> args.changes[i].property]

C10_Witness ==
    /\ op = "alter_schema"
    /\ args.changes = <<RemoveProperty("k2"), SetProperty("k1", "v1")>>
    /\ Len(requests) = 1
    /\ requests[1].body.updates =
           <<[type |-> "removeProperty", property |-> "k2"],
             [type |-> "setProperty", property |-> "k1", value |-> "v1"]>>

====
